---- MODULE Spec2Model ----
(***************************************************************************)
(* AmiiboGenerator: the AmiiboMenu browser session (catalog, selection,    *)
(* sort, viewport, input dispatch) and the Amiibo record generator/eraser. *)
(* The repository carries two builds of the menu header:                   *)
(*   "include" = include/amiibomenu.hpp, "source" = source/amiibomenu.hpp. *)
(* The variable impl fixes which build a behaviour runs.                   *)
(***************************************************************************)
EXTENDS Integers, Sequences, FiniteSets, TLC

VARIABLES
    impl,           \* which build of amiibomenu.hpp runs: "include" or "source"
    amiibodata,     \* amiibodata_["amiibo"]: the catalog, a sequence of entries
    selectedCount,  \* selectedCount_ / currentSelectedAmiibos
    cursorIndex,    \* cursorIndex_ / currentCursorIndex (0-based)
    scrollOffset,   \* scrollOffset_
    sortIndex,      \* sortIndex_ / currentSortIndex (0-based)
    withImage,      \* withImage_ / generateWithImage
    shouldExit,     \* shouldExit_ / shallExit
    holdUpTicks,    \* holdUpTicks_   (include build only)
    holdDownTicks,  \* holdDownTicks_ (include build only)
    kDown,          \* pad_: buttons newly down at the last padUpdate
    pending,        \* buttons of kDown still to dispatch, in handler order
    pc,             \* position of the session: "poll", "dispatch", "wait", "done"
    sdmc,           \* storage: set of record directories under sdmc:/emuiibo/amiibo/
    calls,          \* collaborator calls made so far in the current tick
    summary,        \* deleted / skipped / processed counters of the tick's delete
    refreshes       \* updateScreen calls made so far in the current tick

vars == <<impl, amiibodata, selectedCount, cursorIndex, scrollOffset, sortIndex,
          withImage, shouldExit, holdUpTicks, holdDownTicks, kDown,
          pending, pc, sdmc, calls, summary, refreshes>>

----------------------------------------------------------------------------
(* Program constants *)

VISIBLE_ITEMS == 38
SORT_OPTIONS_COUNT == 4
SORT_FIELDS == <<"amiiboSeries", "amiiboSeries", "name", "name">>
SORT_DIRECTIONS == <<"A", "D", "A", "D">>
STICK_DEADZONE == 8000
STICK_MAX == 32767

(* Bounds of the model *)

MaxLen == 2        \* longest document of the small-catalog specification
MaxButtons == 1    \* most buttons newly down in one poll
MaxExtra == 12     \* entries beyond VISIBLE_ITEMS in the viewport specification
MaxHold == 6       \* longest hold of Up/Down, in ticks, in the viewport specification

----------------------------------------------------------------------------
(* Integers and strings.  A string is a sequence of character codes. *)

Min(a, b) == IF a < b THEN a ELSE b
Max(a, b) == IF a > b THEN a ELSE b
Abs(a) == IF a < 0 THEN -a ELSE a

RECURSIVE StrLess(_, _)
\* std::string operator< : lexicographic on character codes
StrLess(a, b) ==
    IF b = <<>> THEN FALSE
    ELSE IF a = <<>> THEN TRUE
    ELSE IF a[1] # b[1] THEN a[1] < b[1]
    ELSE StrLess(Tail(a), Tail(b))

----------------------------------------------------------------------------
(* JSON values: [t |-> type, v |-> value].  An entry is a function from    *)
(* the keys it contains to JSON values.                                    *)

JNull == [t |-> "null", v |-> <<>>]
JStr(s) == [t |-> "string", v |-> s]
JBool(b) == [t |-> "boolean", v |-> b]

\* nlohmann::json type order used by operator< between different types
TypeRank(t) == CASE t = "null" -> 0 [] t = "boolean" -> 1 [] t = "number" -> 2
                 [] t = "object" -> 3 [] t = "array" -> 4 [] t = "string" -> 5

\* json operator<
JsonLess(a, b) ==
    IF a.t # b.t THEN TypeRank(a.t) < TypeRank(b.t)
    ELSE CASE a.t = "string" -> StrLess(a.v, b.v)
           [] a.t = "boolean" -> (a.v = FALSE /\ b.v = TRUE)
           [] a.t = "number" -> a.v < b.v
           [] OTHER -> FALSE

\* json operator> (defined by the library as b < a)
JsonGreater(a, b) == JsonLess(b, a)

Contains(obj, key) == key \in DOMAIN obj

\* variant of getJsonValue that gives the empty value of T, not defVal, when
\* the key is present with another type
getJsonValue_WrongTypeGivesEmpty(obj, key, type, defVal) ==
    IF ~Contains(obj, key) THEN defVal
    ELSE IF obj[key].t = type THEN obj[key].v
    ELSE IF type = "boolean" THEN FALSE ELSE <<>>

\* getJsonValue<T>: the value when the key is present with type T, else defVal
getJsonValue(obj, key, type, defVal) ==
    IF Contains(obj, key) /\ obj[key].t = type THEN obj[key].v ELSE defVal

IsSelected(item) == getJsonValue(item, "selected", "boolean", FALSE)

\* item["selected"] = b : creates the key when it is absent
SetSelected(item, b) ==
    [k \in DOMAIN item \cup {"selected"} |->
        IF k = "selected" THEN JBool(b) ELSE item[k]]

----------------------------------------------------------------------------
(* Catalog entries and documents *)

Head8 == <<48, 48, 48, 48, 48, 48, 48, 48>>      \* "00000000"
TailA == <<48, 48, 48, 48, 48, 48, 48, 50>>      \* "00000002"
TailB == <<48, 48, 48, 49, 48, 48, 48, 50>>      \* "00010002"
TailC == <<48, 48, 48, 50, 48, 48, 48, 50>>      \* "00020002"

\* two entries of the same series, and one entry without amiiboSeries
EntryA == [name |-> JStr(<<65>>), amiiboSeries |-> JStr(<<83>>),
           head |-> JStr(Head8), tail |-> JStr(TailA)]
EntryB == [name |-> JStr(<<66>>), amiiboSeries |-> JStr(<<83>>),
           head |-> JStr(Head8), tail |-> JStr(TailB)]
EntryC == [name |-> JStr(<<65>>), head |-> JStr(Head8), tail |-> JStr(TailC)]

Pool == {EntryA, EntryB, EntryC}

\* entries of the record specification: with an image URL, without head, with
\* an id shorter than 16 characters, and with a name ("A!/") that
\* sanitizePath changes
EntryImage == [name |-> JStr(<<73>>), amiiboSeries |-> JStr(<<83>>),
               head |-> JStr(Head8), tail |-> JStr(TailA),
               image |-> JStr(<<117>>)]
EntryNoHead == [name |-> JStr(<<78>>), amiiboSeries |-> JStr(<<83>>),
                tail |-> JStr(TailA)]
EntryShortId == [name |-> JStr(<<72>>), amiiboSeries |-> JStr(<<83>>),
                 head |-> JStr(Head8), tail |-> JStr(<<50>>)]
EntrySpecial == [name |-> JStr(<<65, 33, 47>>), amiiboSeries |-> JStr(<<83>>),
                 head |-> JStr(Head8), tail |-> JStr(TailB)]

\* an id of hexadecimal digits in both cases, "01aB0203" + "001C0502", and an
\* id whose fields are not all hexadecimal digits, "-1zz0x1f" + "00000002"
EntryHex == [name |-> JStr(<<88>>), amiiboSeries |-> JStr(<<83>>),
             head |-> JStr(<<48, 49, 97, 66, 48, 50, 48, 51>>),
             tail |-> JStr(<<48, 48, 49, 67, 48, 53, 48, 50>>)]
EntryOddId == [name |-> JStr(<<79>>), amiiboSeries |-> JStr(<<83>>),
               head |-> JStr(<<45, 49, 122, 122, 48, 120, 49, 102>>),
               tail |-> JStr(TailA)]

RecordPool == {EntryA, EntryC, EntryImage, EntryNoHead, EntryShortId, EntrySpecial,
               EntryHex, EntryOddId}

\* documents of the record specification: one entry
RecordDocs == {<<e>> : e \in RecordPool}

\* documents of the small-catalog specification: distinct entries, any order
Docs == {d \in UNION {[1..n -> Pool] : n \in 0..MaxLen} :
            \A i, j \in DOMAIN d : i # j => d[i] # d[j]}

\* documents of the viewport specification: n entries of one series and name
ViewEntry == [name |-> JStr(<<65>>), amiiboSeries |-> JStr(<<83>>)]
ViewDoc(n) == [i \in 1..n |-> ViewEntry]
ViewSizes == {0, VISIBLE_ITEMS - 1, VISIBLE_ITEMS, VISIBLE_ITEMS + 1,
              VISIBLE_ITEMS + MaxExtra}
ViewDocs == {ViewDoc(n) : n \in ViewSizes}

----------------------------------------------------------------------------
(* Amiibo (source/amiibo.hpp) and the storage under sdmc:/emuiibo/amiibo/. *)
(* A path is the string after the base path, without the trailing slash.   *)

\* UTIL::isBlacklistedCharacter: non-ASCII and ! ? . , ' \ are removed
isBlacklistedCharacter(c) == c >= 128 \/ c \in {33, 63, 46, 44, 39, 92}

RECURSIVE sanitizePath(_)
\* remove blacklisted characters, then replace '/' by '_'
sanitizePath(input) ==
    IF input = <<>> THEN <<>>
    ELSE IF isBlacklistedCharacter(input[1]) THEN sanitizePath(Tail(input))
    ELSE <<IF input[1] = 47 THEN 95 ELSE input[1]>> \o sanitizePath(Tail(input))

IsString(obj, key) == Contains(obj, key) /\ obj[key].t = "string"

\* validateAmiiboData: head and tail present (get<std::string> throws on a
\* value of another type, which generate/erase catch and report as false)
validateAmiiboData(amiibo) == IsString(amiibo, "head") /\ IsString(amiibo, "tail")

AmiiboIdOf(amiibo) == amiibo["head"].v \o amiibo["tail"].v

\* AmiiboId::parse succeeds iff the id has at least 16 characters
AmiiboIdParses(amiiboId) == Len(amiiboId) >= 16

\* std::string::substr(pos, n)
substr(str, pos, n) == SubSeq(str, pos + 1, Min(pos + n, Len(str)))

\* AmiiboId::parse: the fields of an id of at least 16 characters
AmiiboIdParse(amiiboId) ==
    [game_character_id |-> substr(amiiboId, 0, 4),
     character_variant |-> substr(amiiboId, 4, 2),
     character_figure_type |-> substr(amiiboId, 6, 2),
     model_number |-> substr(amiiboId, 8, 4),
     series |-> substr(amiiboId, 12, 2)]

\* the value of a character as a digit of base 16, -1 when it is none
HexDigit(c) ==
    IF c >= 48 /\ c <= 57 THEN c - 48
    ELSE IF c >= 65 /\ c <= 70 THEN c - 55
    ELSE IF c >= 97 /\ c <= 102 THEN c - 87
    ELSE -1

RECURSIVE HexPrefix(_, _)
\* strtol: the value of the longest prefix of digits, acc being the value so far
HexPrefix(str, acc) ==
    IF str = <<>> \/ HexDigit(str[1]) < 0 THEN acc
    ELSE HexPrefix(Tail(str), 16 * acc + HexDigit(str[1]))

RECURSIVE SkipSpace(_)
SkipSpace(str) ==
    IF str # <<>> /\ (str[1] = 32 \/ (str[1] >= 9 /\ str[1] <= 13))
    THEN SkipSpace(Tail(str)) ELSE str

\* hexToInt of a non-empty string of at most 4 characters: strtol(str, 0, 16)
\* skips white space, takes a sign, takes "0x" or "0X" when a digit follows,
\* and reads digits up to the first character that is none
hexToInt(hexStr) ==
    LET t == SkipSpace(hexStr)
        neg == t # <<>> /\ t[1] = 45
        u == IF t # <<>> /\ t[1] \in {43, 45} THEN Tail(t) ELSE t
        v == IF Len(u) >= 3 /\ u[1] = 48 /\ u[2] \in {120, 88} /\ HexDigit(u[3]) >= 0
             THEN Tail(Tail(u)) ELSE u
        val == HexPrefix(v, 0)
    IN  IF neg THEN -val ELSE val

\* variant of swap_uint16 that returns the value as it is
swap_uint16_NoSwap(val) == val % 65536

\* UTIL::swap_uint16: the argument is converted to uint16_t; the low byte of
\* val << 8 is 0 and val >> 8 is below 256, so that | adds the two
swap_uint16(val) ==
    LET v == val % 65536
    IN  ((v * 256) + (v \div 256)) % 65536

\* generate: amiiboData["id"] of the descriptor written to amiibo.json
amiiboDataId(amiibo) ==
    LET id == AmiiboIdParse(AmiiboIdOf(amiibo))
    IN  [game_character_id |-> swap_uint16(hexToInt(id.game_character_id)),
         character_variant |-> hexToInt(id.character_variant),
         figure_type |-> hexToInt(id.character_figure_type),
         series |-> hexToInt(id.series),
         model_number |-> hexToInt(id.model_number)]

\* buildAmiiboPath: "" when amiiboSeries or name is missing
buildAmiiboPath(amiibo, amiiboId) ==
    IF ~Contains(amiibo, "amiiboSeries") \/ ~Contains(amiibo, "name") THEN <<>>
    ELSE sanitizePath(amiibo["amiiboSeries"].v) \o <<47>>
         \o sanitizePath(amiibo["name"].v) \o <<95>> \o amiiboId

\* the entry reaches the storage step of generate/erase with a path
HasRecordPath(amiibo) ==
    /\ validateAmiiboData(amiibo)
    /\ AmiiboIdParses(AmiiboIdOf(amiibo))
    /\ Contains(amiibo, "amiiboSeries") => amiibo["amiiboSeries"].t = "string"
    /\ Contains(amiibo, "name") => amiibo["name"].t = "string"
    /\ buildAmiiboPath(amiibo, AmiiboIdOf(amiibo)) # <<>>

RecordPath(amiibo) == buildAmiiboPath(amiibo, AmiiboIdOf(amiibo))

Exists(sd, path) == path \in sd

\* the thumbnail step of generate runs when the image flag is on and the
\* entry has an image attribute
ImageRequested(amiibo, image) == image /\ Contains(amiibo, "image")

\* outcome of the thumbnail step: not run, downloaded and resized, or failed
\* (download error, or an exception while reading the URL or resizing)
ImageOutcomes(amiibo, image) ==
    IF ImageRequested(amiibo, image) THEN {"done", "failed"} ELSE {"none"}

\* variant of generate without the test of an existing record
generate_Overwrites(amiibo, image, sd) ==
    IF ~HasRecordPath(amiibo) THEN {[ok |-> FALSE, sdmc |-> sd, img |-> "none"]}
    ELSE {[ok |-> TRUE, sdmc |-> sd \cup {RecordPath(amiibo)}, img |-> i] :
             i \in ImageOutcomes(amiibo, image)}
         \cup {[ok |-> FALSE, sdmc |-> sd, img |-> "none"],
               [ok |-> FALSE, sdmc |-> sd \cup {RecordPath(amiibo)}, img |-> "none"]}

\* variant of generate that returns false when the thumbnail step failed
generate_ImageFailureFails(amiibo, image, sd) ==
    IF ~HasRecordPath(amiibo) THEN {[ok |-> FALSE, sdmc |-> sd, img |-> "none"]}
    ELSE IF Exists(sd, RecordPath(amiibo))
    THEN {[ok |-> FALSE, sdmc |-> sd, img |-> "none"]}
    ELSE {[ok |-> i # "failed", sdmc |-> sd \cup {RecordPath(amiibo)}, img |-> i] :
             i \in ImageOutcomes(amiibo, image)}
         \cup {[ok |-> FALSE, sdmc |-> sd, img |-> "none"],
               [ok |-> FALSE, sdmc |-> sd \cup {RecordPath(amiibo)}, img |-> "none"]}

\* Amiibo::generate: the set of possible [ok, sdmc, img] results.  Storage
\* operations may fail: create_directories (nothing created) or the creation
\* of amiibo.flag / amiibo.json (directory left behind).  The thumbnail step
\* comes last and its outcome img does not change the value returned.
generate(amiibo, image, sd) ==
    IF ~HasRecordPath(amiibo) THEN {[ok |-> FALSE, sdmc |-> sd, img |-> "none"]}
    ELSE IF Exists(sd, RecordPath(amiibo))
    THEN {[ok |-> FALSE, sdmc |-> sd, img |-> "none"]}
    ELSE {[ok |-> TRUE, sdmc |-> sd \cup {RecordPath(amiibo)}, img |-> i] :
             i \in ImageOutcomes(amiibo, image)}
         \cup {[ok |-> FALSE, sdmc |-> sd, img |-> "none"],
               [ok |-> FALSE, sdmc |-> sd \cup {RecordPath(amiibo)}, img |-> "none"]}

\* variant of erase that builds the path from the attributes as they are,
\* without sanitizePath
erase_RawPath(amiibo, sd) ==
    IF ~HasRecordPath(amiibo) THEN {[ok |-> FALSE, sdmc |-> sd]}
    ELSE LET raw == amiibo["amiiboSeries"].v \o <<47>> \o amiibo["name"].v
                    \o <<95>> \o AmiiboIdOf(amiibo)
         IN  IF Exists(sd, raw)
             THEN {[ok |-> TRUE, sdmc |-> sd \ {raw}], [ok |-> FALSE, sdmc |-> sd]}
             ELSE {[ok |-> TRUE, sdmc |-> sd]}

\* Amiibo::erase: remove_all of the record directory; a filesystem_error
\* gives false and leaves the directory
erase(amiibo, sd) ==
    IF ~HasRecordPath(amiibo) THEN {[ok |-> FALSE, sdmc |-> sd]}
    ELSE IF Exists(sd, RecordPath(amiibo))
         THEN {[ok |-> TRUE, sdmc |-> sd \ {RecordPath(amiibo)}],
               [ok |-> FALSE, sdmc |-> sd]}
         ELSE {[ok |-> TRUE, sdmc |-> sd]}

----------------------------------------------------------------------------
(* AmiiboMenu.  The operations are operators on a record m of the menu's   *)
(* members (with the storage and the call/refresh logs); an operation whose *)
(* outcome is not determined by m returns the set of possible results.     *)

Menu == [amiibodata |-> amiibodata, selectedCount |-> selectedCount,
         cursorIndex |-> cursorIndex, scrollOffset |-> scrollOffset,
         sortIndex |-> sortIndex, withImage |-> withImage,
         shouldExit |-> shouldExit, holdUpTicks |-> holdUpTicks,
         holdDownTicks |-> holdDownTicks, sdmc |-> sdmc,
         calls |-> calls, summary |-> summary, refreshes |-> refreshes]

\* the members of the record are installed as the next state
Install(m) ==
    /\ amiibodata' = m.amiibodata
    /\ selectedCount' = m.selectedCount
    /\ cursorIndex' = m.cursorIndex
    /\ scrollOffset' = m.scrollOffset
    /\ sortIndex' = m.sortIndex
    /\ withImage' = m.withImage
    /\ shouldExit' = m.shouldExit
    /\ holdUpTicks' = m.holdUpTicks
    /\ holdDownTicks' = m.holdDownTicks
    /\ sdmc' = m.sdmc
    /\ calls' = m.calls
    /\ summary' = m.summary
    /\ refreshes' = m.refreshes

\* the logs of a tick are empty when the handler is entered
NoSummary == [deleted |-> 0, skipped |-> 0, processed |-> 0]
Fresh(m) == [m EXCEPT !.calls = <<>>, !.summary = NoSummary, !.refreshes = 0]

updateScreen(m) == [m EXCEPT !.refreshes = @ + 1]

isValidIndex(m, idx) == idx >= 0 /\ idx < Len(m.amiibodata)

\* the catalog index idx (0-based) as a position of the sequence
At(m, idx) == m.amiibodata[idx + 1]

\* std::clamp(v, lo, hi) in the include build: undefined when hi < lo, where
\* the library's min(max(v, lo), hi) gives hi and the ternary form gives lo
\* or hi; max(lo, min(v, hi)) in the source build
ClampResults(v, lo, hi) ==
    IF impl = "source" THEN {Max(lo, Min(v, hi))}
    ELSE IF hi < lo THEN {lo, hi}
    ELSE {Min(Max(v, lo), hi)}

\* variant of adjustScrollOffset that never scrolls down to a cursor below the window
adjustScrollOffset_NoScrollDown(m) ==
    LET s1 == IF m.cursorIndex < m.scrollOffset THEN m.cursorIndex
              ELSE m.scrollOffset
        maxOffset == Max(0, Len(m.amiibodata) - VISIBLE_ITEMS)
    IN  [m EXCEPT !.scrollOffset = Max(0, Min(s1, maxOffset))]

\* variant of adjustScrollOffset that scrolls one entry short of the cursor
adjustScrollOffset_OneShort(m) ==
    LET s1 == IF m.cursorIndex < m.scrollOffset THEN m.cursorIndex
              ELSE IF m.cursorIndex >= m.scrollOffset + VISIBLE_ITEMS
                   THEN m.cursorIndex - VISIBLE_ITEMS
                   ELSE m.scrollOffset
        maxOffset == Max(0, Len(m.amiibodata) - VISIBLE_ITEMS)
    IN  [m EXCEPT !.scrollOffset = Max(0, Min(s1, maxOffset))]

adjustScrollOffset(m) ==
    LET s1 == IF m.cursorIndex < m.scrollOffset THEN m.cursorIndex
              ELSE IF m.cursorIndex >= m.scrollOffset + VISIBLE_ITEMS
                   THEN m.cursorIndex - VISIBLE_ITEMS + 1
                   ELSE m.scrollOffset
        maxOffset == Max(0, Len(m.amiibodata) - VISIBLE_ITEMS)
    IN  [m EXCEPT !.scrollOffset = Max(0, Min(s1, maxOffset))]

moveCursor(m, delta) ==
    LET total == Len(m.amiibodata)
    IN  { IF newIdx # m.cursorIndex
          THEN updateScreen(adjustScrollOffset([m EXCEPT !.cursorIndex = newIdx]))
          ELSE m
          : newIdx \in ClampResults(m.cursorIndex + delta, 0, total - 1) }

jumpCursor(m, delta) == moveCursor(m, delta * 10)

\* variant of toggleCurrentItem that selects the entry whatever it was
toggleCurrentItem_AlwaysSelects(m) ==
    IF ~isValidIndex(m, m.cursorIndex) THEN m
    ELSE updateScreen(
           [m EXCEPT !.amiibodata[m.cursorIndex + 1] = SetSelected(@, TRUE),
                     !.selectedCount = @ + 1])

\* variant of toggleCurrentItem without the index test: on an empty catalog
\* item["selected"] = true creates an entry
toggleCurrentItem_NoIndexTest(m) ==
    IF Len(m.amiibodata) = 0
    THEN updateScreen([m EXCEPT !.amiibodata = <<[selected |-> JBool(TRUE)]>>,
                                !.selectedCount = @ + 1])
    ELSE LET wasSelected == IsSelected(At(m, m.cursorIndex))
         IN  updateScreen(
               [m EXCEPT !.amiibodata[m.cursorIndex + 1] = SetSelected(@, ~wasSelected),
                         !.selectedCount = IF wasSelected THEN @ - 1 ELSE @ + 1])

toggleCurrentItem(m) ==
    IF ~isValidIndex(m, m.cursorIndex) THEN m
    ELSE LET wasSelected == IsSelected(At(m, m.cursorIndex))
         IN  updateScreen(
               [m EXCEPT !.amiibodata[m.cursorIndex + 1] = SetSelected(@, ~wasSelected),
                         !.selectedCount = IF wasSelected THEN @ - 1 ELSE @ + 1])

\* variant of toggleAllAmiibo that selects every entry
toggleAllAmiibo_SelectsAll(m) ==
    updateScreen(
      [m EXCEPT !.amiibodata = [i \in DOMAIN m.amiibodata |->
                                  SetSelected(m.amiibodata[i], TRUE)],
                !.selectedCount = Len(m.amiibodata)])

\* variant of toggleAllAmiibo that counts the entries that were selected
toggleAllAmiibo_CountsSelected(m) ==
    LET oldSelected == Cardinality({i \in DOMAIN m.amiibodata :
                                        IsSelected(m.amiibodata[i])})
    IN  updateScreen(
          [m EXCEPT !.amiibodata = [i \in DOMAIN m.amiibodata |->
                                      SetSelected(m.amiibodata[i],
                                                  ~IsSelected(m.amiibodata[i]))],
                    !.selectedCount = oldSelected])

toggleAllAmiibo(m) ==
    LET newSelected == Cardinality({i \in DOMAIN m.amiibodata :
                                        ~IsSelected(m.amiibodata[i])})
    IN  updateScreen(
          [m EXCEPT !.amiibodata = [i \in DOMAIN m.amiibodata |->
                                      SetSelected(m.amiibodata[i],
                                                  ~IsSelected(m.amiibodata[i]))],
                    !.selectedCount = newSelected])

toggleImageGeneration(m) == updateScreen([m EXCEPT !.withImage = ~@])

----------------------------------------------------------------------------
(* Sort *)

\* variant of the sort key that reads a missing field as the string "Unknown"
SortKeyValue_MissingAsUnknown(item, key) ==
    IF Contains(item, key) THEN item[key]
    ELSE JStr(<<85, 110, 107, 110, 111, 119, 110>>)

SortKeyValue(item, key) == IF Contains(item, key) THEN item[key] ELSE JNull

\* the comparator handed to std::sort
SortComp(a, b, key, ascending) ==
    IF ascending THEN JsonLess(SortKeyValue(a, key), SortKeyValue(b, key))
    ELSE JsonGreater(SortKeyValue(a, key), SortKeyValue(b, key))

IsSortedBy(seq, key, ascending) ==
    \A i, j \in DOMAIN seq : i < j => ~SortComp(seq[j], seq[i], key, ascending)

\* std::sort is not stable: any ordered permutation may result
SortResults(seq, key, ascending) ==
    IF \A i \in DOMAIN seq : seq[i] = seq[1] THEN {seq}
    ELSE {t \in {[i \in DOMAIN seq |-> seq[p[i]]] : p \in Permutations(DOMAIN seq)} :
             IsSortedBy(t, key, ascending)}

\* variant of sortAmiibo that resets the selection while it sorts
sortAmiibo_ResetsSelection(m) ==
    LET sortKey == SORT_FIELDS[m.sortIndex + 1]
        ascending == SORT_DIRECTIONS[m.sortIndex + 1] = "A"
    IN  {updateScreen([m EXCEPT !.amiibodata =
                                   [i \in DOMAIN t |-> SetSelected(t[i], FALSE)],
                                !.selectedCount = 0]) :
            t \in SortResults(m.amiibodata, sortKey, ascending)}

sortAmiibo(m) ==
    LET sortKey == SORT_FIELDS[m.sortIndex + 1]
        ascending == SORT_DIRECTIONS[m.sortIndex + 1] = "A"
    IN  {updateScreen([m EXCEPT !.amiibodata = t]) :
            t \in SortResults(m.amiibodata, sortKey, ascending)}

\* variant of nextSortOption that stops at the last option instead of wrapping
nextSortOption_NoWrap(m) ==
    sortAmiibo([m EXCEPT !.sortIndex = Min(@ + 1, SORT_OPTIONS_COUNT - 1)])

\* nextSortOption / nextInfoIndex
nextSortOption(m) ==
    sortAmiibo([m EXCEPT !.sortIndex = (@ + 1) % SORT_OPTIONS_COUNT])

----------------------------------------------------------------------------
(* Batch actions.  Each returns the set of possible results; the caller    *)
(* blocks in waitForButton(B) when the per-entry loop has run.             *)

Call(op, idx, ok) == [op |-> op, idx |-> idx, ok |-> ok]

RECURSIVE GenerateLoop_ClearsSelected(_, _)
\* variant of the generate loop that clears the flag of each processed entry
GenerateLoop_ClearsSelected(m, i) ==
    IF i > Len(m.amiibodata) THEN {m}
    ELSE IF ~IsSelected(m.amiibodata[i]) THEN GenerateLoop_ClearsSelected(m, i + 1)
    ELSE UNION { GenerateLoop_ClearsSelected(
                    [m EXCEPT !.sdmc = r.sdmc,
                              !.calls = Append(@, Call("generate", i - 1, r.ok)),
                              !.amiibodata[i] = SetSelected(@, FALSE),
                              !.selectedCount = @ - 1],
                    i + 1)
                 : r \in generate(m.amiibodata[i], m.withImage, m.sdmc) }

RECURSIVE GenerateLoop_StopsOnFailure(_, _)
\* variant of the generate loop that ends the batch at the first failure
GenerateLoop_StopsOnFailure(m, i) ==
    IF i > Len(m.amiibodata) THEN {m}
    ELSE IF ~IsSelected(m.amiibodata[i]) THEN GenerateLoop_StopsOnFailure(m, i + 1)
    ELSE UNION { LET n == [m EXCEPT !.sdmc = r.sdmc,
                                    !.calls = Append(@, Call("generate", i - 1, r.ok))]
                 IN  IF r.ok THEN GenerateLoop_StopsOnFailure(n, i + 1) ELSE {n}
                 : r \in generate(m.amiibodata[i], m.withImage, m.sdmc) }

RECURSIVE GenerateLoop(_, _)
\* the for loop of generateAmiibo from position i of the catalog on
GenerateLoop(m, i) ==
    IF i > Len(m.amiibodata) THEN {m}
    ELSE IF ~IsSelected(m.amiibodata[i]) THEN GenerateLoop(m, i + 1)
    ELSE UNION { GenerateLoop([m EXCEPT !.sdmc = r.sdmc,
                                        !.calls = Append(@, Call("generate", i - 1, r.ok))],
                              i + 1)
                 : r \in generate(m.amiibodata[i], m.withImage, m.sdmc) }

\* variant of generateAmiibo without the test of an empty selection
generateAmiibo_NoEmptyTest(m) ==
    {[m |-> r, wait |-> TRUE] : r \in GenerateLoop(m, 1)}

\* variant of generateAmiibo that requests exit when a generate call failed
generateAmiibo_ExitsOnFailure(m) ==
    IF m.selectedCount = 0 THEN {[m |-> updateScreen(m), wait |-> FALSE]}
    ELSE {[m |-> [r EXCEPT !.shouldExit =
                      @ \/ \E k \in DOMAIN r.calls : ~r.calls[k].ok],
           wait |-> TRUE] : r \in GenerateLoop(m, 1)}

\* generateAmiibo up to the wait for B: [m, wait]
generateAmiibo(m) ==
    IF m.selectedCount = 0 THEN {[m |-> updateScreen(m), wait |-> FALSE]}
    ELSE {[m |-> r, wait |-> TRUE] : r \in GenerateLoop(m, 1)}

RECURSIVE DeleteLoopInclude(_, _)
\* include build: erase every selected entry, count OK / SKIP
DeleteLoopInclude(m, i) ==
    IF i > Len(m.amiibodata) THEN {m}
    ELSE IF ~IsSelected(m.amiibodata[i]) THEN DeleteLoopInclude(m, i + 1)
    ELSE UNION { DeleteLoopInclude(
                    [m EXCEPT !.sdmc = r.sdmc,
                              !.calls = Append(@, Call("erase", i - 1, r.ok)),
                              !.summary.processed = @ + 1,
                              !.summary.deleted = IF r.ok THEN @ + 1 ELSE @,
                              !.summary.skipped = IF r.ok THEN @ ELSE @ + 1,
                              !.amiibodata[i] = SetSelected(@, FALSE)],
                    i + 1)
                 : r \in erase(m.amiibodata[i], m.sdmc) }

\* source build: the path tested before erase, built from the raw attributes
CheckPath(item) ==
    getJsonValue(item, "amiiboSeries", "string", <<>>) \o <<47>>
    \o getJsonValue(item, "name", "string", <<>>) \o <<95>>
    \o getJsonValue(item, "head", "string", <<>>)
    \o getJsonValue(item, "tail", "string", <<>>)

\* source build: the pre-check applies when head, tail, series, name are non-empty
PreChecked(item) ==
    /\ getJsonValue(item, "head", "string", <<>>) # <<>>
    /\ getJsonValue(item, "tail", "string", <<>>) # <<>>
    /\ getJsonValue(item, "amiiboSeries", "string", <<>>) # <<>>
    /\ getJsonValue(item, "name", "string", <<>>) # <<>>

RECURSIVE DeleteLoopSource_SkipKeepsFlag(_, _)
\* variant of the source build's delete loop that leaves a skipped entry selected
DeleteLoopSource_SkipKeepsFlag(m, i) ==
    IF i > Len(m.amiibodata) THEN {m}
    ELSE IF ~IsSelected(m.amiibodata[i]) THEN DeleteLoopSource_SkipKeepsFlag(m, i + 1)
    ELSE IF PreChecked(m.amiibodata[i]) /\ ~Exists(m.sdmc, CheckPath(m.amiibodata[i]))
    THEN DeleteLoopSource_SkipKeepsFlag([m EXCEPT !.summary.processed = @ + 1,
                                                  !.summary.skipped = @ + 1],
                                        i + 1)
    ELSE UNION { DeleteLoopSource_SkipKeepsFlag(
                    [m EXCEPT !.sdmc = r.sdmc,
                              !.calls = Append(@, Call("erase", i - 1, r.ok)),
                              !.summary.processed = @ + 1,
                              !.summary.deleted = IF r.ok THEN @ + 1 ELSE @,
                              !.amiibodata[i] = SetSelected(@, FALSE)],
                    i + 1)
                 : r \in erase(m.amiibodata[i], m.sdmc) }

RECURSIVE DeleteLoopSource(_, _)
\* source build: skip entries whose checked path is absent, erase the others
DeleteLoopSource(m, i) ==
    IF i > Len(m.amiibodata) THEN {m}
    ELSE IF ~IsSelected(m.amiibodata[i]) THEN DeleteLoopSource(m, i + 1)
    ELSE IF PreChecked(m.amiibodata[i]) /\ ~Exists(m.sdmc, CheckPath(m.amiibodata[i]))
    THEN DeleteLoopSource([m EXCEPT !.summary.processed = @ + 1,
                                    !.summary.skipped = @ + 1,
                                    !.amiibodata[i] = SetSelected(@, FALSE)],
                          i + 1)
    ELSE UNION { DeleteLoopSource(
                    [m EXCEPT !.sdmc = r.sdmc,
                              !.calls = Append(@, Call("erase", i - 1, r.ok)),
                              !.summary.processed = @ + 1,
                              !.summary.deleted = IF r.ok THEN @ + 1 ELSE @,
                              !.amiibodata[i] = SetSelected(@, FALSE)],
                    i + 1)
                 : r \in erase(m.amiibodata[i], m.sdmc) }

\* include build: sdmc:/emuiibo/amiibo/ is missing or empty
NoAmiiboFolders(sd) == sd = {}

\* variant of deleteSelectedAmiibo that does not reset selectedCount
deleteSelectedAmiibo_KeepsCount(m) ==
    IF m.selectedCount = 0 THEN {[m |-> updateScreen(m), wait |-> FALSE]}
    ELSE IF impl = "include" /\ NoAmiiboFolders(m.sdmc)
    THEN {[m |-> updateScreen(m), wait |-> FALSE]}
    ELSE {[m |-> r, wait |-> TRUE] :
             r \in IF impl = "include" THEN DeleteLoopInclude(m, 1)
                   ELSE DeleteLoopSource(m, 1)}

\* deleteSelectedAmiibo up to the wait for B: [m, wait]
deleteSelectedAmiibo(m) ==
    IF m.selectedCount = 0 THEN {[m |-> updateScreen(m), wait |-> FALSE]}
    ELSE IF impl = "include" /\ NoAmiiboFolders(m.sdmc)
    THEN {[m |-> updateScreen(m), wait |-> FALSE]}
    ELSE {[m |-> [r EXCEPT !.selectedCount = 0], wait |-> TRUE] :
             r \in IF impl = "include" THEN DeleteLoopInclude(m, 1)
                   ELSE DeleteLoopSource(m, 1)}

----------------------------------------------------------------------------
(* Database reload.  The outcome of the fetch, of opening the file and of  *)
(* parsing it is the environment's: "fetchFail", "openFail", "parseFail",  *)
(* the document that was loaded, or "noKey": a document that parses but    *)
(* has no top-level "amiibo" key.                                          *)

ReloadOutcomes == {"fetchFail", "openFail", "parseFail", "noKey", "loaded"}

\* amiibodata["amiibo"] after file >> amiibodata: the reload does not test the
\* key, and operator[] on a document without it creates a null value, whose
\* size is 0
LoadedCatalog(outcome, doc) == IF outcome = "noKey" THEN <<>> ELSE doc

\* include build: the parse error of file >> amiibodata_ is not caught in
\* the menu and ends the session in main's handler
ReloadThrows(outcome) == impl = "include" /\ outcome = "parseFail"

\* variant of updateAmiiboDatabase that keeps selectedCount over a reload
updateAmiiboDatabase_KeepsCount(m, outcome, doc) ==
    IF outcome = "fetchFail" THEN [m EXCEPT !.shouldExit = TRUE]
    ELSE IF outcome \in {"openFail", "parseFail"} THEN m
    ELSE updateScreen([m EXCEPT !.amiibodata = LoadedCatalog(outcome, doc),
                                !.cursorIndex = 0, !.scrollOffset = 0,
                                !.sortIndex = 0])

\* variant of updateAmiiboDatabase that drops the catalog when the fetch fails
updateAmiiboDatabase_FailDropsCatalog(m, outcome, doc) ==
    IF outcome = "fetchFail"
    THEN [m EXCEPT !.shouldExit = TRUE, !.amiibodata = <<>>,
                   !.cursorIndex = 0, !.scrollOffset = 0, !.selectedCount = 0]
    ELSE IF outcome \in {"openFail", "parseFail"} THEN m
    ELSE updateScreen([m EXCEPT !.amiibodata = LoadedCatalog(outcome, doc),
                                !.cursorIndex = 0, !.scrollOffset = 0,
                                !.selectedCount = 0, !.sortIndex = 0])

\* doc is the document read when the outcome is "loaded".  The source build
\* catches the parse error and returns; the catalog is taken to be as it was
\* before the read (the JSON library is not part of the sources).
updateAmiiboDatabase(m, outcome, doc) ==
    IF outcome = "fetchFail" THEN [m EXCEPT !.shouldExit = TRUE]
    ELSE IF outcome \in {"openFail", "parseFail"} THEN m
    ELSE updateScreen([m EXCEPT !.amiibodata = LoadedCatalog(outcome, doc),
                                !.cursorIndex = 0, !.scrollOffset = 0,
                                !.selectedCount = 0, !.sortIndex = 0])

----------------------------------------------------------------------------
(* The session: mainLoop, inputHandler, waitForButton *)

ButtonOrder == <<"Plus", "Minus", "Up", "Down", "Left", "Right", "L", "R",
                 "ZL", "ZR", "A", "X", "Y", "StickL">>
Buttons == {ButtonOrder[i] : i \in DOMAIN ButtonOrder}

\* the sets of buttons of B a poll may report as newly down
KDowns(B) == {kd \in SUBSET B : Cardinality(kd) <= MaxButtons}

\* buttons of the small-catalog specification (selection, sort, batch actions,
\* reload, exit, single steps) and of the viewport specification (every
\* cursor movement, reload)
SessionButtons == {"Plus", "Minus", "Up", "Down", "ZL", "A", "X", "Y", "StickL"}
ViewButtons == {"Minus", "Up", "Down", "Left", "Right", "L", "R"}

\* the pressed buttons in the order inputHandler tests them
InOrder(kd) == SelectSeq(ButtonOrder, LAMBDA b : b \in kd)

\* held Up/Down reported by padGetButtons: a button newly down is held.
\* With holds, a button stays down for up to MaxHold ticks; without, it is
\* released before the next tick.
Helds(kd, holds) ==
    {kh \in SUBSET {"Up", "Down"} :
        /\ kd \cap {"Up", "Down"} \subseteq kh
        /\ "Up" \in kh => holdUpTicks < (IF holds THEN MaxHold ELSE 1)
        /\ "Down" \in kh => holdDownTicks < (IF holds THEN MaxHold ELSE 1)}

\* A binary32 value is [m, e], standing for m * 2^e with 2^23 <= m <= 2^24.
\* Results are rounded to nearest, ties to even.
RoundShift(n, d) ==
    LET q == n \div d
        r == n % d
    IN  IF 2 * r > d \/ (2 * r = d /\ q % 2 = 1) THEN q + 1 ELSE q

\* (float)a / (float)b for integers 0 < a < 2b < 2^16
FloatDiv(a, b) ==
    LET k == CHOOSE j \in 0..15 : a * 2^j >= b /\ (j = 0 \/ a * 2^(j - 1) < b)
        a2 == a * 2^k
        q1 == (a2 * 2^12) \div b
        r1 == (a2 * 2^12) % b
        q2 == (r1 * 2^11) \div b
        r2 == (r1 * 2^11) % b
        m == q1 * 2^11 + q2
    IN  [m |-> IF 2 * r2 > b \/ (2 * r2 = b /\ m % 2 = 1) THEN m + 1 ELSE m,
         e |-> -(k + 23)]

\* f * n for a small integer n (converted to float exactly)
FloatMul(f, n) ==
    LET p == f.m * n
        s == CHOOSE j \in 0..4 : p < 2^(24 + j) /\ (j = 0 \/ p >= 2^(23 + j))
    IN  [m |-> RoundShift(p, 2^s), e |-> f.e + s]

\* (int)f : truncation of a non-negative value
FloatToInt(f) ==
    IF f.e >= 0 THEN f.m * 2^f.e
    ELSE IF -f.e > 30 THEN 0
    ELSE f.m \div 2^(-f.e)

\* variant of the scroll speed that scales the deflection to 0..10
ScrollSpeed_TenSteps(y) ==
    1 + FloatToInt(FloatMul(FloatDiv(Abs(y) - STICK_DEADZONE,
                                     STICK_MAX - STICK_DEADZONE), 10))

\* scroll_speed of the source build for a deflection y beyond the deadzone:
\* stick_percentage is a float in (0, 1], scroll_speed = 1 + (int)(that * 9)
ScrollSpeed(y) ==
    1 + FloatToInt(FloatMul(FloatDiv(Abs(y) - STICK_DEADZONE,
                                     STICK_MAX - STICK_DEADZONE), 9))

Sticks == {0, STICK_DEADZONE + 1, -(STICK_DEADZONE + 1)}
ViewSticks == {0, STICK_DEADZONE, STICK_DEADZONE + 1, -(STICK_DEADZONE + 1),
               20000, -20000, STICK_MAX, -(STICK_MAX + 1)}

TypeOK ==
    /\ impl \in {"include", "source"}
    /\ pc \in {"poll", "dispatch", "wait", "done"}
    /\ selectedCount \in Int /\ cursorIndex \in Int /\ scrollOffset \in Int
    /\ sortIndex \in 0..(SORT_OPTIONS_COUNT - 1)
    /\ withImage \in BOOLEAN /\ shouldExit \in BOOLEAN
    /\ kDown \subseteq Buttons \cup {"B"}

\* AmiiboMenu(data): members initialised, then sortAmiibo(); mainLoop calls
\* updateScreen before the first tick
InitWith(D) ==
    /\ impl \in {"include", "source"}
    /\ \E d \in D : amiibodata \in SortResults(d, SORT_FIELDS[1], TRUE)
    /\ selectedCount = 0 /\ cursorIndex = 0 /\ scrollOffset = 0 /\ sortIndex = 0
    /\ withImage = FALSE /\ shouldExit = FALSE
    /\ holdUpTicks = 0 /\ holdDownTicks = 0
    /\ kDown = {}
    /\ pending = <<>> /\ pc = "poll"
    /\ sdmc = {}
    /\ calls = <<>> /\ summary = NoSummary /\ refreshes = 0

\* mainLoop: the loop condition fails once shouldExit is set
LoopExit ==
    /\ pc = "poll" /\ shouldExit
    /\ pc' = "done"
    /\ UNCHANGED <<impl, amiibodata, selectedCount, cursorIndex, scrollOffset,
                   sortIndex, withImage, shouldExit, holdUpTicks, holdDownTicks,
                   kDown, pending, sdmc, calls, summary, refreshes>>

\* variant of the poll that does not look at shouldExit
Poll_IgnoresExit(KD) ==
    /\ pc = "poll"
    /\ kDown' \in KD
    /\ "Up" \in kDown' => holdUpTicks = 0
    /\ "Down" \in kDown' => holdDownTicks = 0
    /\ pending' = InOrder(kDown')
    /\ pc' = "dispatch"
    /\ Install(Menu)
    /\ UNCHANGED impl

\* inputHandler: padUpdate and padGetButtonsDown; a button is newly down
\* only if it was not held at the previous padUpdate
Poll(KD) ==
    /\ pc = "poll" /\ ~shouldExit
    /\ kDown' \in KD
    /\ "Up" \in kDown' => holdUpTicks = 0
    /\ "Down" \in kDown' => holdDownTicks = 0
    /\ pending' = InOrder(kDown')
    /\ pc' = "dispatch"
    /\ Install(Menu)
    /\ UNCHANGED impl

\* the guard of the dispatch of button b
Dispatching(b) == pc = "dispatch" /\ pending # <<>> /\ Head(pending) = b

\* the dispatch completed without blocking
Dispatched(m) ==
    /\ Install(m)
    /\ pending' = Tail(pending)
    /\ pc' = "dispatch"
    /\ UNCHANGED <<impl, kDown>>

\* the dispatch blocks in waitForButton(B)
Blocked(m) ==
    /\ Install(m)
    /\ pending' = Tail(pending)
    /\ pc' = "wait"
    /\ UNCHANGED <<impl, kDown>>

PressPlus ==
    /\ Dispatching("Plus")
    /\ Dispatched([Menu EXCEPT !.shouldExit = TRUE])

PressMinus(D) ==
    /\ Dispatching("Minus")
    /\ \E outcome \in ReloadOutcomes, doc \in D :
         IF ReloadThrows(outcome)
         THEN /\ pc' = "done"
              /\ Install(Menu)
              /\ UNCHANGED <<impl, kDown, pending>>
         ELSE Dispatched(updateAmiiboDatabase(Menu, outcome, doc))

PressUp == Dispatching("Up") /\ \E m \in moveCursor(Menu, -1) : Dispatched(m)
PressDown == Dispatching("Down") /\ \E m \in moveCursor(Menu, 1) : Dispatched(m)
PressLeft == Dispatching("Left") /\ \E m \in jumpCursor(Menu, -1) : Dispatched(m)
PressRight == Dispatching("Right") /\ \E m \in jumpCursor(Menu, 1) : Dispatched(m)
PressL == Dispatching("L") /\ \E m \in moveCursor(Menu, -VISIBLE_ITEMS) : Dispatched(m)
PressR == Dispatching("R") /\ \E m \in moveCursor(Menu, VISIBLE_ITEMS) : Dispatched(m)
PressZL == Dispatching("ZL") /\ Dispatched(toggleAllAmiibo(Menu))
PressZR == Dispatching("ZR") /\ Dispatched(toggleImageGeneration(Menu))
PressA == Dispatching("A") /\ Dispatched(toggleCurrentItem(Menu))

PressX ==
    /\ Dispatching("X")
    /\ \E r \in generateAmiibo(Menu) :
         IF r.wait THEN Blocked(r.m) ELSE Dispatched(r.m)

PressY == Dispatching("Y") /\ \E m \in nextSortOption(Menu) : Dispatched(m)

PressStickL ==
    /\ Dispatching("StickL")
    /\ \E r \in deleteSelectedAmiibo(Menu) :
         IF r.wait THEN Blocked(r.m) ELSE Dispatched(r.m)

\* variant of the wait in which the exit button pressed during the wait is
\* taken as an exit request
WaitForButton_PlusExits ==
    /\ pc = "wait"
    /\ \E down \in SUBSET {"B", "A", "Plus"} :
         IF "B" \in down
         THEN /\ kDown' = down
              /\ pc' = "dispatch"
              /\ Install(updateScreen([Menu EXCEPT !.shouldExit = @ \/ "Plus" \in down]))
              /\ UNCHANGED <<impl, pending>>
         ELSE UNCHANGED vars

\* waitForButton(B) / the wait loops of the source build: each round polls
\* the pad; a round without B changes nothing, B ends the wait and the screen
\* is redrawn
WaitForButton ==
    /\ pc = "wait"
    /\ \E down \in SUBSET {"B", "A", "Plus"} :
         IF "B" \in down
         THEN /\ kDown' = down
              /\ pc' = "dispatch"
              /\ Install(updateScreen(Menu))
              /\ UNCHANGED <<impl, pending>>
         ELSE UNCHANGED vars

\* variant of the hold repeat that starts one tick later
HoldRepeat_StartsLater(m, kHeld) ==
    LET up == IF "Up" \in kHeld
              THEN IF m.holdUpTicks + 1 > 5
                   THEN moveCursor([m EXCEPT !.holdUpTicks = @ + 1], -1)
                   ELSE {[m EXCEPT !.holdUpTicks = @ + 1]}
              ELSE {[m EXCEPT !.holdUpTicks = 0]}
    IN  UNION { IF "Down" \in kHeld
                THEN IF u.holdDownTicks + 1 > 5
                     THEN moveCursor([u EXCEPT !.holdDownTicks = @ + 1], 1)
                     ELSE {[u EXCEPT !.holdDownTicks = @ + 1]}
                ELSE {[u EXCEPT !.holdDownTicks = 0]}
                : u \in up }

\* include build: the hold counters after the dispatches, kHeld being the
\* buttons padGetButtons reports
HoldRepeat(m, kHeld) ==
    LET up == IF "Up" \in kHeld
              THEN IF m.holdUpTicks + 1 >= 5
                   THEN moveCursor([m EXCEPT !.holdUpTicks = @ + 1], -1)
                   ELSE {[m EXCEPT !.holdUpTicks = @ + 1]}
              ELSE {[m EXCEPT !.holdUpTicks = 0]}
    IN  UNION { IF "Down" \in kHeld
                THEN IF u.holdDownTicks + 1 >= 5
                     THEN moveCursor([u EXCEPT !.holdDownTicks = @ + 1], 1)
                     ELSE {[u EXCEPT !.holdDownTicks = @ + 1]}
                ELSE {[u EXCEPT !.holdDownTicks = 0]}
                : u \in up }

\* source build: left stick scrolling after the dispatches, stick_y being
\* the y of padGetStickPos
StickScroll(m, stick_y) ==
    IF Abs(stick_y) > STICK_DEADZONE
    THEN IF stick_y > 0 THEN moveCursor(m, -ScrollSpeed(stick_y))
         ELSE moveCursor(m, ScrollSpeed(stick_y))
    ELSE {m}

\* the rest of inputHandler after the last dispatch, reading the pad state
\* of the last padUpdate; then the handler returns and the tick's logs end
TickEnd(HC, ST) ==
    /\ pc = "dispatch" /\ pending = <<>>
    /\ IF impl = "include"
       THEN \E kHeld \in Helds(kDown, HC) :
               \E m \in HoldRepeat(Menu, kHeld) : Install(Fresh(m))
       ELSE \E stick_y \in ST :
               \E m \in StickScroll(Menu, stick_y) : Install(Fresh(m))
    /\ pc' = "poll"
    /\ kDown' = {}
    /\ UNCHANGED <<impl, pending>>

Init == InitWith(Docs)

Next ==
    \/ LoopExit
    \/ Poll(KDowns(SessionButtons))
    \/ PressPlus
    \/ PressMinus(Docs)
    \/ PressUp
    \/ PressDown
    \/ PressZL
    \/ PressA
    \/ PressX
    \/ PressY
    \/ PressStickL
    \/ WaitForButton
    \/ TickEnd(FALSE, Sticks)

Spec == Init /\ [][Next]_vars

InitView == InitWith(ViewDocs)

NextView ==
    \/ Poll(KDowns(ViewButtons))
    \/ PressMinus(ViewDocs)
    \/ PressUp
    \/ PressDown
    \/ PressLeft
    \/ PressRight
    \/ PressL
    \/ PressR
    \/ TickEnd(TRUE, ViewSticks)

SpecView == InitView /\ [][NextView]_vars

\* the exit specification: exit, reload, image flag, selection of the entry
\* under the cursor and the batch actions, with one button more per poll, so
\* that exit is requested in a tick that goes on to dispatch other buttons
ExitButtons == {"Plus", "Minus", "ZR", "A", "X", "StickL"}
ExitKDowns == {kd \in SUBSET ExitButtons : Cardinality(kd) <= MaxButtons + 1}

InitExit == InitWith(Docs)

NextExit ==
    \/ LoopExit
    \/ Poll(ExitKDowns)
    \/ PressPlus
    \/ PressMinus(Docs)
    \/ PressZR
    \/ PressA
    \/ PressX
    \/ PressStickL
    \/ WaitForButton
    \/ TickEnd(FALSE, Sticks)

SpecExit == InitExit /\ [][NextExit]_vars

\* the catalog specification: the operations on the catalog alone (reload,
\* toggle, toggle all, advance of the sort option), without the batch actions
CatalogButtons == {"Minus", "ZL", "A", "Y"}

InitCatalog == InitWith(Docs)

NextCatalog ==
    \/ LoopExit
    \/ Poll(KDowns(CatalogButtons))
    \/ PressMinus(Docs)
    \/ PressZL
    \/ PressA
    \/ PressY
    \/ TickEnd(FALSE, Sticks)

SpecCatalog == InitCatalog /\ [][NextCatalog]_vars

\* the record specification: generate and delete of a one-entry catalog over
\* the entries of RecordPool, with and without the image flag
RecordButtons == {"ZR", "A", "X", "StickL"}

InitRecord == InitWith(RecordDocs)

NextRecord ==
    \/ Poll(KDowns(RecordButtons))
    \/ PressZR
    \/ PressA
    \/ PressX
    \/ PressStickL
    \/ WaitForButton
    \/ TickEnd(FALSE, Sticks)

SpecRecord == InitRecord /\ [][NextRecord]_vars

\* the stick specification: ticks without any button, so that the cursor is
\* moved by the left stick alone
InitStick == InitWith(ViewDocs)

NextStick ==
    \/ Poll({{}})
    \/ TickEnd(FALSE, ViewSticks)

SpecStick == InitStick /\ [][NextStick]_vars

\* the hold specification: Up and Down pressed and held for up to MaxHold
\* ticks over the catalogs of the viewport specification
HoldButtons == {"Up", "Down"}

InitHold == InitWith(ViewDocs)

NextHold ==
    \/ Poll(KDowns(HoldButtons))
    \/ PressUp
    \/ PressDown
    \/ TickEnd(TRUE, Sticks)

SpecHold == InitHold /\ [][NextHold]_vars

----------------------------------------------------------------------------
(* Properties *)

\* the 0-based indices of the selected entries of a catalog, ascending
SelectedIdx(seq) ==
    LET sel == SelectSeq([i \in DOMAIN seq |-> i], LAMBDA i : IsSelected(seq[i]))
    IN  [k \in DOMAIN sel |-> sel[k] - 1]

NumSelected(seq) == Cardinality({i \in DOMAIN seq : IsSelected(seq[i])})

\* the catalog indices of the collaborator calls a step adds to the log
NewCallIdx ==
    [k \in 1..(Len(calls') - Len(calls)) |-> calls'[Len(calls) + k].idx]
NewCallOps ==
    {calls'[Len(calls) + k].op : k \in 1..(Len(calls') - Len(calls))}

\* a step leaves the catalog, the browser state and the storage alone
SessionUnchanged ==
    UNCHANGED <<amiibodata, selectedCount, cursorIndex, scrollOffset, sortIndex,
                withImage, shouldExit, sdmc>>

C2_CursorInWindow ==
    Len(amiibodata) > 0 =>
        /\ 0 <= cursorIndex /\ cursorIndex < Len(amiibodata)
        /\ scrollOffset <= cursorIndex /\ cursorIndex < scrollOffset + VISIBLE_ITEMS
        /\ Len(amiibodata) < VISIBLE_ITEMS => scrollOffset = 0

\* the window was scrolled down and the cursor then moved back up inside it
C2_Witness ==
    /\ Len(amiibodata) > VISIBLE_ITEMS
    /\ scrollOffset > 0 /\ scrollOffset < cursorIndex
    /\ cursorIndex < scrollOffset + VISIBLE_ITEMS - 1

\* C3 (as claimed): the scroll offset stays within [0, max(0, len - VISIBLE_ITEMS)];
\* the cursor is a valid index of a non-empty catalog and 0 on an empty one.
C3_Claim ==
    /\ 0 <= scrollOffset
    /\ scrollOffset <= Max(0, Len(amiibodata) - VISIBLE_ITEMS)
    /\ Len(amiibodata) > 0 => (0 <= cursorIndex /\ cursorIndex < Len(amiibodata))
    /\ Len(amiibodata) = 0 => cursorIndex = 0

\* C4 (as claimed): after a generate action over a non-empty selection no
\* processed entry is still selected.
C4_Original ==
    (pc = "wait" /\ calls # <<>> /\ calls[Len(calls)].op = "generate") =>
        \A k \in DOMAIN calls :
            calls[k].op = "generate" => ~IsSelected(amiibodata[calls[k].idx + 1])

\* C4 (amended): the generate action leaves the catalog, with every selected
\* flag, and selectedCount as they were, whatever the generator returned.
C4_GenerateKeepsSelection ==
    [][Dispatching("X") => (amiibodata' = amiibodata /\ selectedCount' = selectedCount)]_vars

\* generate has processed two entries, one failed and one succeeded, and both
\* are still selected
C4_Witness ==
    /\ pc = "wait" /\ Len(calls) = 2
    /\ \A k \in DOMAIN calls :
          calls[k].op = "generate" /\ IsSelected(amiibodata[calls[k].idx + 1])
    /\ {calls[k].ok : k \in DOMAIN calls} = {TRUE, FALSE}

\* C5 (as claimed): a delete action invoked with selectedCount > 0 always
\* leaves the selection empty.
C5_Original ==
    [][(Dispatching("StickL") /\ selectedCount > 0) =>
          (selectedCount' = 0 /\ NumSelected(amiibodata') = 0)]_vars

\* C5 (amended): a delete action invoked with selectedCount > 0 that runs its
\* per-entry loop leaves the selection empty, whatever the eraser returned; the
\* include build returns without the loop, the selection unchanged, when the
\* amiibo folder is missing or empty.
C5_DeleteClearsSelection ==
    [][(Dispatching("StickL") /\ selectedCount > 0) =>
          IF impl = "include" /\ NoAmiiboFolders(sdmc)
          THEN amiibodata' = amiibodata /\ selectedCount' = selectedCount
               /\ pc' = "dispatch"
          ELSE selectedCount' = 0 /\ NumSelected(amiibodata') = 0
               /\ pc' = "wait"]_vars

\* a delete has run over two entries, the eraser failed for one of them, and
\* the selection is empty
C5_Witness ==
    /\ pc = "wait" /\ summary.processed = 2
    /\ \E k \in DOMAIN calls : calls[k].op = "erase" /\ ~calls[k].ok
    /\ selectedCount = 0 /\ NumSelected(amiibodata) = 0

\* C6 (as claimed): a generate or delete action over a non-empty selection
\* calls its collaborator exactly once per selected entry, in index order.
C6_Original ==
    [][((Dispatching("X") \/ Dispatching("StickL")) /\ selectedCount > 0) =>
          NewCallIdx = SelectedIdx(amiibodata)]_vars

\* the selected entries the delete loop hands to the eraser
ErasedIdx ==
    SelectSeq(SelectedIdx(amiibodata),
              LAMBDA i : IF impl = "include" THEN ~NoAmiiboFolders(sdmc)
                         ELSE ~(PreChecked(amiibodata[i + 1])
                                /\ ~Exists(sdmc, CheckPath(amiibodata[i + 1]))))

\* C6 (amended): generate calls the generator exactly once per selected entry,
\* in index order, never for an unselected entry, and a failure does not end
\* the batch.  Delete does the same with the eraser except that the source
\* build skips a selected entry whose checked record path is not on storage
\* and the include build makes no call when the amiibo folder is missing or
\* empty.
C6_BatchCalls ==
    [][/\ (Dispatching("X") /\ selectedCount > 0) =>
            (NewCallIdx = SelectedIdx(amiibodata) /\ NewCallOps = {"generate"})
       /\ (Dispatching("StickL") /\ selectedCount > 0) =>
            (NewCallIdx = ErasedIdx /\ NewCallOps \subseteq {"erase"})]_vars

\* a batch whose first call failed went on to the next selected entry
C6_Witness ==
    /\ pc = "wait" /\ Len(calls) = 2
    /\ ~calls[1].ok /\ calls[1].idx < calls[2].idx

\* C7: generate or delete invoked with selectedCount = 0 makes no collaborator
\* call, processes no entry, changes neither the catalog, the browser state
\* nor the storage, and returns without waiting for a button.
C7_EmptySelectionSkips ==
    [][((Dispatching("X") \/ Dispatching("StickL")) /\ selectedCount = 0) =>
          /\ calls' = calls
          /\ summary' = NoSummary
          /\ SessionUnchanged
          /\ pc' = "dispatch"]_vars

\* delete was dispatched with nothing selected and the handler went on
C7_Witness ==
    /\ kDown = {"StickL"} /\ pending = <<>> /\ pc = "dispatch"
    /\ selectedCount = 0 /\ Len(amiibodata) > 0 /\ refreshes = 1

\* C8: at a valid cursor index, toggle followed by toggle restores the entry's
\* selected value and selectedCount and leaves every other entry unchanged.
C8_ToggleTwiceRestores ==
    isValidIndex(Menu, cursorIndex) =>
        LET once == toggleCurrentItem(Menu)
            twice == toggleCurrentItem(once)
        IN  /\ IsSelected(At(once, cursorIndex)) # IsSelected(At(Menu, cursorIndex))
            /\ IsSelected(At(twice, cursorIndex)) = IsSelected(At(Menu, cursorIndex))
            /\ twice.selectedCount = selectedCount
            /\ Len(twice.amiibodata) = Len(amiibodata)
            /\ \A i \in DOMAIN amiibodata :
                  i # cursorIndex + 1 => twice.amiibodata[i] = amiibodata[i]

\* the entry under the cursor was toggled on and off again
C8_Witness ==
    /\ kDown = {"A"} /\ pending = <<>> /\ pc = "dispatch"
    /\ isValidIndex(Menu, cursorIndex)
    /\ Contains(At(Menu, cursorIndex), "selected")
    /\ ~IsSelected(At(Menu, cursorIndex))
    /\ selectedCount = 0

\* C9: toggle at an invalid cursor index changes nothing: no entry is created
\* or changed, selectedCount is unchanged, the screen is not redrawn and the
\* handler goes on.
C9_InvalidToggleIsNoOp ==
    [][(Dispatching("A") /\ ~isValidIndex(Menu, cursorIndex)) =>
          /\ SessionUnchanged
          /\ refreshes' = refreshes
          /\ pc' = "dispatch"]_vars

\* toggle was dispatched on an empty catalog
C9_Witness ==
    /\ kDown = {"A"} /\ pending = <<>> /\ pc = "dispatch"
    /\ Len(amiibodata) = 0 /\ selectedCount = 0 /\ refreshes = 0

\* C10: toggleAll flips the selected flag of every entry, changes nothing else
\* of an entry, and sets selectedCount to the number of entries that were
\* unselected before the call.
C10_ToggleAllFlips ==
    [][Dispatching("ZL") =>
          /\ Len(amiibodata') = Len(amiibodata)
          /\ \A i \in DOMAIN amiibodata :
                /\ IsSelected(amiibodata'[i]) = ~IsSelected(amiibodata[i])
                /\ \A k \in DOMAIN amiibodata[i] \ {"selected"} :
                      Contains(amiibodata'[i], k) /\ amiibodata'[i][k] = amiibodata[i][k]
          /\ selectedCount' = Len(amiibodata) - NumSelected(amiibodata)]_vars

\* toggleAll ran on a mixed selection: one entry became selected, one unselected
C10_Witness ==
    /\ kDown = {"ZL"} /\ pending = <<>> /\ pc = "dispatch"
    /\ Len(amiibodata) = 2 /\ selectedCount = 1
    /\ \A i \in DOMAIN amiibodata : Contains(amiibodata[i], "selected")

\* the selection is mixed: some entries are selected and some are not
MixedSelection(seq) == 0 < NumSelected(seq) /\ NumSelected(seq) < Len(seq)

\* C11 (as claimed): toggleAll on a mixed selection undercounts: selectedCount
\* is afterwards smaller than the number of selected entries.
C11_Original ==
    MixedSelection(amiibodata) =>
        toggleAllAmiibo(Menu).selectedCount
            < NumSelected(toggleAllAmiibo(Menu).amiibodata)

\* C11 (amended): toggleAll never undercounts: from every state, mixed or not,
\* selectedCount is afterwards equal to the number of selected entries.
C11_ToggleAllCountsExactly ==
    toggleAllAmiibo(Menu).selectedCount
        = NumSelected(toggleAllAmiibo(Menu).amiibodata)

\* toggleAll ran on a mixed selection: the entry that was selected is now
\* unselected, the other is selected, and the count is the exact 1
C11_Witness ==
    /\ kDown = {"ZL"} /\ pending = <<>> /\ pc = "dispatch"
    /\ \E i, j \in DOMAIN amiibodata :
          /\ IsSelected(amiibodata[i])
          /\ Contains(amiibodata[j], "selected") /\ ~IsSelected(amiibodata[j])
    /\ selectedCount = NumSelected(amiibodata)

\* the deltas of the buttons and of the stick, and the deltas to the ends
Deltas ==
    {-1, 1, -10, 10, -VISIBLE_ITEMS, VISIBLE_ITEMS,
     Len(amiibodata) - 1, Len(amiibodata), -Len(amiibodata)}

\* clamp into the valid indices, 0 on an empty catalog
ClampIndex(v, total) == Max(0, Min(v, total - 1))

\* C12 (as claimed): moveCursor(delta) sets the cursor to
\* clamp(current + delta, 0, total - 1); when that is the current cursor the
\* call changes nothing and does not redraw; otherwise the cursor is updated,
\* the scroll offset adjusted and the screen redrawn exactly once.
C12_Claim ==
    \A delta \in Deltas : \A r \in moveCursor(Menu, delta) :
        LET c == ClampIndex(cursorIndex + delta, Len(amiibodata))
        IN  /\ r.cursorIndex = c
            /\ c = cursorIndex => r = Menu
            /\ c # cursorIndex =>
                  /\ r.scrollOffset =
                        adjustScrollOffset([Menu EXCEPT !.cursorIndex = c]).scrollOffset
                  /\ r.refreshes = refreshes + 1
                  /\ r.amiibodata = amiibodata /\ r.selectedCount = selectedCount

\* C13: in a catalog longer than VISIBLE_ITEMS a moveCursor that reaches or
\* passes the end puts the cursor on total - 1 and the scroll offset on
\* total - VISIBLE_ITEMS; whenever the cursor is on the last entry the scroll
\* offset is max(0, total - VISIBLE_ITEMS), and whenever it is 0 the offset is 0.
C13_EndsOfCatalog ==
    LET total == Len(amiibodata)
    IN  /\ total > VISIBLE_ITEMS =>
              \A delta \in Deltas : \A r \in moveCursor(Menu, delta) :
                  cursorIndex + delta >= total - 1 =>
                      /\ r.cursorIndex = total - 1
                      /\ r.scrollOffset = total - VISIBLE_ITEMS
        /\ (total > 0 /\ cursorIndex = total - 1) =>
              scrollOffset = Max(0, total - VISIBLE_ITEMS)
        /\ cursorIndex = 0 => scrollOffset = 0

\* the cursor went down to the last entry of the longest catalog, the window
\* following it
C13_Witness ==
    /\ Len(amiibodata) = VISIBLE_ITEMS + MaxExtra
    /\ cursorIndex = Len(amiibodata) - 1
    /\ scrollOffset = MaxExtra
    /\ refreshes > 0

RECURSIVE AdvanceTimes(_, _)
\* the menus n calls of nextSortOption may lead to from the menus of S
AdvanceTimes(S, n) ==
    IF n = 0 THEN S
    ELSE AdvanceTimes(UNION {nextSortOption(m) : m \in S}, n - 1)

\* C14: the sort option index lies in [0, SORT_OPTIONS_COUNT); an advance sets
\* it to (index + 1) mod 4, and SORT_OPTIONS_COUNT advances in a row return to
\* the option index they started from.
C14_SortIndexCycles ==
    /\ 0 <= sortIndex /\ sortIndex < SORT_OPTIONS_COUNT
    /\ \A r \in nextSortOption(Menu) : r.sortIndex = (sortIndex + 1) % 4
    /\ \A r \in AdvanceTimes({Menu}, SORT_OPTIONS_COUNT) : r.sortIndex = sortIndex

\* an advance from the last option wrapped to option 0
C14_Witness ==
    /\ kDown = {"Y"} /\ pending = <<>> /\ pc = "dispatch"
    /\ sortIndex = 0 /\ refreshes = 1 /\ Len(amiibodata) > 1

\* C15 (as claimed): sorting twice with the same option gives exactly the
\* entry order that sorting once gave, also when distinguishable entries share
\* the value of the sort key.
C15_Claim ==
    \A once \in sortAmiibo(Menu) : \A twice \in sortAmiibo(once) :
        twice.amiibodata = once.amiibodata

\* the value of field key is present and not empty
NonEmptyField(item, key) ==
    Contains(item, key) /\ item[key] # JNull /\ item[key].v # <<>>

\* entries without the field come first when ascending, last when descending
MissingPlaced(seq, key, ascending) ==
    \A i, j \in DOMAIN seq :
        (~Contains(seq[i], key) /\ NonEmptyField(seq[j], key)) =>
            IF ascending THEN i < j ELSE j < i

\* C16: after a sort on field f every entry that lacks f is placed before
\* every entry with a non-empty value of f when the direction is ascending,
\* and after every such entry when it is descending.
C16_MissingFieldPlacement ==
    \A r \in sortAmiibo(Menu) \cup nextSortOption(Menu) :
        MissingPlaced(r.amiibodata, SORT_FIELDS[r.sortIndex + 1],
                      SORT_DIRECTIONS[r.sortIndex + 1] = "A")

\* a descending sort on amiiboSeries put the entry without a series last
C16_Witness ==
    /\ kDown = {"Y"} /\ pending = <<>> /\ pc = "dispatch"
    /\ sortIndex = 1 /\ Len(amiibodata) = 2
    /\ NonEmptyField(amiibodata[1], "amiiboSeries")
    /\ ~Contains(amiibodata[2], "amiiboSeries")

\* C17: a successful reload replaces the catalog by the entries of the loaded
\* document and resets cursorIndex, scrollOffset, selectedCount and the sort
\* option index to 0; no entry of the new catalog is selected.
C17_ReloadResets ==
    \A doc \in Docs :
        LET r == updateAmiiboDatabase(Menu, "loaded", doc)
        IN  /\ r.amiibodata = doc
            /\ r.cursorIndex = 0 /\ r.scrollOffset = 0
            /\ r.selectedCount = 0 /\ r.sortIndex = 0
            /\ NumSelected(r.amiibodata) = 0

\* a reload was dispatched and loaded a document in its own order (series "S"
\* before the entry without a series, which the constructor's sort never gives)
C17_Witness ==
    /\ kDown = {"Minus"} /\ pending = <<>> /\ pc = "dispatch" /\ refreshes = 1
    /\ Len(amiibodata) = 2
    /\ Contains(amiibodata[1], "amiiboSeries")
    /\ ~Contains(amiibodata[2], "amiiboSeries")
    /\ cursorIndex = 0 /\ scrollOffset = 0 /\ selectedCount = 0 /\ sortIndex = 0

\* C18: when the check-and-fetch of a reload fails, shouldExit is set and the
\* catalog, cursorIndex, scrollOffset, selectedCount, the sort option index and
\* the image flag stay as they were.
C18_FetchFailureKeepsState ==
    \A doc \in Docs :
        LET r == updateAmiiboDatabase(Menu, "fetchFail", doc)
        IN  /\ r.shouldExit
            /\ r.amiibodata = amiibodata
            /\ r.cursorIndex = cursorIndex /\ r.scrollOffset = scrollOffset
            /\ r.selectedCount = selectedCount /\ r.sortIndex = sortIndex
            /\ r.withImage = withImage

\* a reload failed to fetch while an entry was selected and the sort option
\* was not the first: exit is requested, selection and option are kept
C18_Witness ==
    /\ kDown = {"Minus"} /\ pending = <<>> /\ pc = "dispatch"
    /\ shouldExit /\ refreshes = 0
    /\ selectedCount > 0 /\ NumSelected(amiibodata) > 0 /\ sortIndex > 0

\* C19: shouldExit becomes true only by the exit button or by a reload whose
\* fetch failed (which loads nothing); generate and delete, whatever the
\* generator, the thumbnail download or the eraser returned, and the wait that
\* follows them leave shouldExit as it was and do not end the session.
C19_OnlyExitOrFetchFailure ==
    [][/\ (~shouldExit /\ shouldExit') =>
            \/ Dispatching("Plus")
            \/ (Dispatching("Minus") /\ amiibodata' = amiibodata
                                     /\ refreshes' = refreshes)
       /\ (Dispatching("X") \/ Dispatching("StickL") \/ pc = "wait") =>
            (shouldExit' = shouldExit /\ pc' \in {"dispatch", "wait"})]_vars

\* a generate with the image flag on failed, the user pressed B, and the
\* handler goes on with no exit requested
C19_Witness ==
    /\ pc = "dispatch" /\ "B" \in kDown /\ ~shouldExit /\ withImage
    /\ calls # <<>>
    /\ \A k \in DOMAIN calls : calls[k].op = "generate" /\ ~calls[k].ok

\* C20: shouldExit is never cleared; at the start of a tick with shouldExit set
\* the loop ends without polling or dispatching anything, and nothing happens
\* once the loop has ended.
C20_ExitIsTerminal ==
    [][/\ shouldExit => shouldExit'
       /\ (shouldExit /\ pc = "poll") =>
            (pc' = "done" /\ UNCHANGED <<amiibodata, selectedCount, cursorIndex,
                                         scrollOffset, sortIndex, withImage, sdmc,
                                         kDown, pending, calls, refreshes>>)
       /\ pc # "done"]_vars

\* the loop ended on shouldExit after a tick that was dispatched to its end
C20_Witness ==
    /\ pc = "done" /\ shouldExit /\ kDown = {} /\ pending = <<>>
    /\ sdmc # {}

C22_Claim ==
    \A doc \in Docs :
        updateAmiiboDatabase(Menu, "noKey", doc).amiibodata = amiibodata

\* the attribute keys the menu reads, and defaults of each requested type
AttrKeys == {"selected", "name", "amiiboSeries", "head", "tail", "image"}
AttrDefaults(type) ==
    IF type = "boolean" THEN {FALSE, TRUE}
    ELSE {<<>>, <<85, 110, 107, 110, 111, 119, 110>>}

\* C23: getJsonValue(entry, key, default) gives the stored value when the key
\* is present with the requested type and the default when the key is absent
\* or its value has another type; it always gives a value.
C23_GetAttribute ==
    \A i \in DOMAIN amiibodata : \A key \in AttrKeys :
        \A type \in {"boolean", "string"} : \A d \in AttrDefaults(type) :
            LET item == amiibodata[i]
                r == getJsonValue(item, key, type, d)
            IN  /\ (Contains(item, key) /\ item[key].t = type) => r = item[key].v
                /\ ~Contains(item, key) => r = d
                /\ (Contains(item, key) /\ item[key].t # type) => r = d

\* the catalog holds a selected entry (a boolean attribute an entry read as a
\* string must default) and an entry without amiiboSeries
C23_Witness ==
    /\ kDown = {"A"} /\ pending = <<>> /\ pc = "dispatch"
    /\ \E i \in DOMAIN amiibodata : IsSelected(amiibodata[i])
    /\ \E j \in DOMAIN amiibodata : ~Contains(amiibodata[j], "amiiboSeries")

\* C24 (as claimed): with the image flag on, generate returns false when the
\* thumbnail download or resize failed.
C24_Original ==
    \A i \in DOMAIN amiibodata :
        \A r \in generate(amiibodata[i], withImage, sdmc) :
            r.img = "failed" => ~r.ok

\* C24 (amended): generate always returns a boolean.  It returns false, the
\* storage unchanged, when head or tail is missing, the id is shorter than 16
\* characters, amiiboSeries or name is missing, or the record is already
\* present; it may return false when the directory or one of its two files
\* could not be created; when it returns true the record directory is on
\* storage.  A failure of the thumbnail download or resize is only warned
\* about: generate then still returns true.
C24_GenerateResult ==
    \A i \in DOMAIN amiibodata :
        LET item == amiibodata[i]
            res == generate(item, withImage, sdmc)
            refused == IF HasRecordPath(item) THEN Exists(sdmc, RecordPath(item))
                       ELSE TRUE
        IN  /\ res # {}
            /\ \A r \in res :
                  /\ r.ok \in BOOLEAN
                  /\ refused => (~r.ok /\ r.sdmc = sdmc)
                  /\ r.ok => Exists(r.sdmc, RecordPath(item))
                  /\ r.img = "failed" => r.ok
            /\ ~refused => \E r \in res : ~r.ok
            /\ (~refused /\ ImageRequested(item, withImage)) =>
                  \E r \in res : r.ok /\ r.img = "failed"

\* generate ran with the image flag on over an entry with an image URL and
\* returned true: the record is on storage
C24_Witness ==
    /\ pc = "wait" /\ withImage /\ Len(amiibodata) = 1
    /\ Contains(amiibodata[1], "image")
    /\ calls = <<Call("generate", 0, TRUE)>>
    /\ sdmc = {RecordPath(amiibodata[1])}

\* the y values of the signed 16-bit range
StickRange == (-(STICK_MAX + 1))..STICK_MAX

\* the step claimed for a deflection y beyond the deadzone
ClaimedStep(y) ==
    1 + (9 * (Abs(y) - STICK_DEADZONE)) \div (STICK_MAX - STICK_DEADZONE)

\* over the whole range, the step the code computes in float arithmetic is
\* the claimed one and lies in 1..10
StepsAsClaimed ==
    \A y \in StickRange :
        Abs(y) > STICK_DEADZONE =>
            (ScrollSpeed(y) = ClaimedStep(y) /\ 1 <= ScrollSpeed(y) /\ ScrollSpeed(y) <= 10)

\* C25: for every stick y of the signed 16-bit range, |y| <= 8000 moves
\* nothing; otherwise the tick calls moveCursor once with step
\* 1 + floor(9 * (|y| - 8000) / (32767 - 8000)), which lies in 1..10, the delta
\* being negative for positive y and positive for negative y.
C25_StickStep ==
    /\ StepsAsClaimed
    /\ \A y \in ViewSticks \cup {-STICK_DEADZONE, -STICK_MAX} :
          StickScroll(Menu, y) =
              IF Abs(y) <= STICK_DEADZONE THEN {Menu}
              ELSE IF y > 0 THEN moveCursor(Menu, -ClaimedStep(y))
              ELSE moveCursor(Menu, ClaimedStep(y))

\* in the source build the stick alone took the cursor of the longest catalog
\* down and back up to index 10, the window scrolled
C25_Witness ==
    /\ impl = "source" /\ pc = "poll"
    /\ Len(amiibodata) = VISIBLE_ITEMS + MaxExtra
    /\ cursorIndex = 10 /\ scrollOffset > 0

\* C26 (as claimed): whenever the session is browsing, the catalog is ordered
\* by the sort option at sortIndex: after construction, after every advance
\* and after a successful reload.
C26_Claim ==
    pc \in {"poll", "dispatch"} =>
        IsSortedBy(amiibodata, SORT_FIELDS[sortIndex + 1],
                   SORT_DIRECTIONS[sortIndex + 1] = "A")

\* C27 (as claimed): once shouldExit has been set within a tick, the buttons
\* still to dispatch of the same poll change neither the catalog, the browser
\* state nor the storage, and make no collaborator call.
C27_Claim ==
    [][(shouldExit /\ pc = "dispatch" /\ pending # <<>>) =>
          (SessionUnchanged /\ calls' = calls /\ pc' = "dispatch")]_vars

\* the number of eraser calls in the log with result ok
ErasedWith(log, ok) ==
    Cardinality({k \in DOMAIN log : log[k].op = "erase" /\ log[k].ok = ok})

\* C28 (as claimed): in the summary of a delete that ran its loop, deleted +
\* skipped + failed is the number of entries selected at invocation, no
\* counter is negative, deleted counts exactly the entries for which the
\* eraser returned true and failed exactly those for which it was called and
\* returned false.
C28_Claim ==
    [][(Dispatching("StickL") /\ pc' = "wait") =>
          LET failed == summary'.processed - summary'.deleted - summary'.skipped
          IN  /\ summary'.deleted + summary'.skipped + failed = selectedCount
              /\ summary'.deleted >= 0 /\ summary'.skipped >= 0 /\ failed >= 0
              /\ summary'.deleted = ErasedWith(calls', TRUE)
              /\ failed = ErasedWith(calls', FALSE)]_vars

\* C29 (as claimed): the path the source build's delete tests before the
\* eraser is the path generate created, also for an entry whose series or name
\* sanitizePath changes: an entry is skipped as not found only if no generated
\* record of it is on storage.
C29_Claim ==
    [][(impl = "source" /\ Dispatching("StickL") /\ summary'.skipped > 0) =>
          \A i \in DOMAIN amiibodata :
              (/\ IsSelected(amiibodata[i])
               /\ PreChecked(amiibodata[i])
               /\ ~Exists(sdmc, CheckPath(amiibodata[i]))
               /\ HasRecordPath(amiibodata[i]))
              => ~Exists(sdmc, RecordPath(amiibodata[i]))]_vars

\* the number of positions of seq that hold entry e
Occurrences(seq, e) == Cardinality({i \in DOMAIN seq : seq[i] = e})

\* t holds the entries of seq, attributes and selected flags included, each as
\* often as seq does
SameEntries(seq, t) ==
    /\ Len(t) = Len(seq)
    /\ \A i \in DOMAIN seq : Occurrences(t, seq[i]) = Occurrences(seq, seq[i])

\* C30: a sort, the one of an advance included, only permutes the catalog: the
\* multiset of entries with their attributes and selected flags is preserved,
\* and cursorIndex, scrollOffset, selectedCount, the image flag and shouldExit
\* are unchanged (the cursor keeps its index, not its entry).
C30_SortOnlyPermutes ==
    \A r \in sortAmiibo(Menu) \cup nextSortOption(Menu) :
        /\ SameEntries(amiibodata, r.amiibodata)
        /\ r.cursorIndex = cursorIndex /\ r.scrollOffset = scrollOffset
        /\ r.selectedCount = selectedCount
        /\ r.withImage = withImage /\ r.shouldExit = shouldExit
        /\ r.sdmc = sdmc

\* an advance moved the selected entry from under the cursor to the second
\* position: the cursor is still at index 0, on an unselected entry
C30_Witness ==
    /\ kDown = {"Y"} /\ pending = <<>> /\ pc = "dispatch" /\ refreshes = 1
    /\ Len(amiibodata) = 2 /\ cursorIndex = 0 /\ selectedCount = 1
    /\ ~IsSelected(amiibodata[1]) /\ IsSelected(amiibodata[2])

\* C31: generate never overwrites a record: when the record directory of the
\* entry is on storage, generate returns false and leaves the storage as it
\* is; so when a generate succeeded, a second generate of the same entry right
\* after it returns false and changes nothing.
C31_NoOverwrite ==
    \A i \in DOMAIN amiibodata :
        LET item == amiibodata[i]
        IN  HasRecordPath(item) =>
              /\ Exists(sdmc, RecordPath(item)) =>
                    \A r \in generate(item, withImage, sdmc) :
                        ~r.ok /\ r.sdmc = sdmc
              /\ \A r1 \in generate(item, withImage, sdmc) :
                    r1.ok => \A r2 \in generate(item, withImage, r1.sdmc) :
                                 ~r2.ok /\ r2.sdmc = r1.sdmc

\* generate was called for an entry whose record is on storage and returned
\* false, the record still there
C31_Witness ==
    /\ pc = "wait" /\ Len(amiibodata) = 1
    /\ HasRecordPath(amiibodata[1])
    /\ calls = <<Call("generate", 0, FALSE)>>
    /\ sdmc = {RecordPath(amiibodata[1])}

\* C32: for an entry with head, tail (together at least 16 characters),
\* amiiboSeries and name, erase removes exactly the directory generate
\* creates: after a successful generate, erase returns true and leaves the
\* storage as it was before the generate, with no record directory of the
\* entry (it returns false, the storage unchanged, only when the removal
\* itself raises an error), and a generate of the same entry can then succeed
\* again, creating the same directory.
C32_EraseUndoesGenerate ==
    \A i \in DOMAIN amiibodata :
        LET item == amiibodata[i]
        IN  HasRecordPath(item) =>
              \A r1 \in generate(item, withImage, sdmc) :
                  r1.ok =>
                    /\ r1.sdmc = sdmc \cup {RecordPath(item)}
                    /\ \E r2 \in erase(item, r1.sdmc) : r2.ok
                    /\ \A r2 \in erase(item, r1.sdmc) :
                          IF r2.ok
                          THEN /\ r2.sdmc = sdmc
                               /\ ~Exists(r2.sdmc, RecordPath(item))
                               /\ \E r3 \in generate(item, withImage, r2.sdmc) :
                                     r3.ok /\ r3.sdmc = r1.sdmc
                          ELSE r2.sdmc = r1.sdmc

\* the record of an entry whose name sanitizePath changes was generated and
\* then erased: the eraser returned true and the storage is empty again
C32_Witness ==
    /\ pc = "wait" /\ Len(amiibodata) = 1
    /\ amiibodata[1]["name"] = EntrySpecial["name"]
    /\ calls = <<Call("erase", 0, TRUE)>>
    /\ summary.deleted = 1 /\ sdmc = {}

\* one step less (up) or more (down) when the condition holds, clamped
StepIf(cond, idx, delta, total) ==
    IF cond THEN ClampIndex(idx + delta, total) ELSE idx

\* C33: in the include build, over a non-empty catalog: the press of Up or
\* Down moves the cursor one step and happens with the button's hold counter
\* at 0; at the end of every tick each hold counter is either reset to 0 (the
\* button is not held) or one more than before (it is held, for that many
\* consecutive ticks), 1 on the tick of the press; and the repeat moveCursor of
\* one step is made on exactly the ticks where that count is at least 5.
C33_HoldRepeat ==
    [][(impl = "include" /\ Len(amiibodata) > 0) =>
          LET total == Len(amiibodata)
          IN  /\ Dispatching("Up") =>
                    /\ holdUpTicks = 0
                    /\ cursorIndex' = ClampIndex(cursorIndex - 1, total)
                    /\ UNCHANGED <<holdUpTicks, holdDownTicks>>
              /\ Dispatching("Down") =>
                    /\ holdDownTicks = 0
                    /\ cursorIndex' = ClampIndex(cursorIndex + 1, total)
                    /\ UNCHANGED <<holdUpTicks, holdDownTicks>>
              /\ (pc = "dispatch" /\ pending = <<>>) =>
                    /\ holdUpTicks' \in {0, holdUpTicks + 1}
                    /\ holdDownTicks' \in {0, holdDownTicks + 1}
                    /\ "Up" \in kDown => holdUpTicks' = 1
                    /\ "Down" \in kDown => holdDownTicks' = 1
                    /\ cursorIndex' =
                          StepIf(holdDownTicks' >= 5,
                                 StepIf(holdUpTicks' >= 5, cursorIndex, -1, total),
                                 1, total)]_vars

\* Down was pressed on the first entry and held for MaxHold ticks: one step at
\* the press and one on each tick from the fifth on
C33_Witness ==
    /\ impl = "include" /\ pc = "poll"
    /\ Len(amiibodata) > VISIBLE_ITEMS
    /\ holdDownTicks = MaxHold /\ holdUpTicks = 0
    /\ cursorIndex = 1 + (MaxHold - 4)

\* the characters of positions first..last (0-based) of an id
IdChars(id, first, last) == [k \in 1..(last - first + 1) |-> id[first + k]]

RECURSIVE HexValue(_)
\* the number a string of hexadecimal digits denotes
HexValue(str) ==
    IF str = <<>> THEN 0
    ELSE 16 * HexValue(SubSeq(str, 1, Len(str) - 1)) + HexDigit(str[Len(str)])

IsHex(str) == \A k \in DOMAIN str : HexDigit(str[k]) >= 0

\* the two bytes of a 16-bit value exchanged
ByteSwap16(v) == (v % 256) * 256 + (v \div 256)

\* C34: for an entry without head or tail, or whose head + tail has fewer than
\* 16 characters, generate and erase return false and leave the storage as it
\* is.  Otherwise the id is sliced at fixed offsets (characters 0-3 game
\* character id, 4-5 variant, 6-7 figure type, 8-11 model number, 12-13
\* series), a field of hexadecimal digits is read as the number it denotes,
\* and the descriptor's game_character_id is the 16-bit byte swap of the value
\* of the first field.
C34_IdFields ==
    \A i \in DOMAIN amiibodata :
        LET item == amiibodata[i]
        IN  IF ~Contains(item, "head") \/ ~Contains(item, "tail")
               \/ Len(AmiiboIdOf(item)) < 16
            THEN /\ generate(item, withImage, sdmc)
                      = {[ok |-> FALSE, sdmc |-> sdmc, img |-> "none"]}
                 /\ erase(item, sdmc) = {[ok |-> FALSE, sdmc |-> sdmc]}
            ELSE LET id == AmiiboIdOf(item)
                     f == AmiiboIdParse(id)
                     d == amiiboDataId(item)
                 IN  /\ f.game_character_id = IdChars(id, 0, 3)
                     /\ f.character_variant = IdChars(id, 4, 5)
                     /\ f.character_figure_type = IdChars(id, 6, 7)
                     /\ f.model_number = IdChars(id, 8, 11)
                     /\ f.series = IdChars(id, 12, 13)
                     /\ d.game_character_id
                           = ByteSwap16(hexToInt(f.game_character_id) % 65536)
                     /\ IsHex(id) =>
                           /\ d.game_character_id
                                 = ByteSwap16(HexValue(IdChars(id, 0, 3)))
                           /\ d.character_variant = HexValue(IdChars(id, 4, 5))
                           /\ d.figure_type = HexValue(IdChars(id, 6, 7))
                           /\ d.model_number = HexValue(IdChars(id, 8, 11))
                           /\ d.series = HexValue(IdChars(id, 12, 13))

\* the record of the entry with id "01aB0203001C0502" was generated: its game
\* character id 01AB is written as AB01 (43777), model number 28, series 5
C34_Witness ==
    /\ pc = "wait" /\ Len(amiibodata) = 1
    /\ Contains(amiibodata[1], "head")
    /\ amiibodata[1]["head"] = EntryHex["head"]
    /\ calls = <<Call("generate", 0, TRUE)>>
    /\ sdmc = {RecordPath(amiibodata[1])}
    /\ amiiboDataId(amiibodata[1]) =
          [game_character_id |-> 43777, character_variant |-> 2,
           figure_type |-> 3, series |-> 5, model_number |-> 28]

====
